---- MODULE Spec2Model ----
(***************************************************************************)
(* A model of FPP.py (Fundamental Price Prediction): the field resolver,   *)
(* the fundamentals assembler, the projection and the summary.             *)
(*                                                                         *)
(* Floating-point numbers are modelled as extended rationals: a value is a *)
(* record [k, n, d] with k = "num" (the rational n/d in lowest terms,      *)
(* d > 0), "nan", "inf" (n = 1 for +inf, n = -1 for -inf), "surd" (the     *)
(* irrational (n/d)^(1/5), see Root5), and, for cells of the profile       *)
(* record only, "none" (Python None) and "absent" (the key is not in the   *)
(* dict).  Rounding is not modelled; NaN and infinities follow IEEE 754.   *)
(***************************************************************************)
EXTENDS Integers, Sequences, FiniteSets, TLC

VARIABLES
    arg_fin, arg_key_list, arg_idx, ret, rpc,      \* one call of the field resolver
    info, financials, balance_sheet, history,      \* what yfinance hands over
    provider_raises,                               \* yfinance raises inside the try
    pc,                                            \* position in the script run
    checkbox,                                      \* the "input manual" checkbox as the operator left it
    data,                                          \* fetch_fundamental_data(ticker)
    manual_mode,                                   \* the checkbox / line 134
    operator,                                      \* what the operator types into the number inputs
    defaults, fields,                              \* lines 132-162
    future_df, summary_data                        \* lines 196-204, 226-233

resolver_vars == <<arg_fin, arg_key_list, arg_idx, ret, rpc>>
provider_vars == <<info, financials, balance_sheet, history, provider_raises>>
run_vars == <<pc, checkbox, data, manual_mode, operator, defaults, fields, future_df, summary_data>>
vars == <<resolver_vars, provider_vars, run_vars>>

---------------------------------------------------------------------------
(* Numbers *)

Abs(x) == IF x < 0 THEN -x ELSE x

RECURSIVE GCD(_, _)
GCD(a, b) == IF b = 0 THEN a ELSE GCD(b, a % b)

\* The rational n/d (d # 0) in lowest terms with a positive denominator.
Num(n, d) ==
    LET g == GCD(Abs(n), Abs(d))
        s == IF d < 0 THEN -1 ELSE 1
    IN  [k |-> "num", n |-> s * (n \div g), d |-> Abs(d) \div g]

Whole(n) == [k |-> "num", n |-> n, d |-> 1]
Zero == Whole(0)
NaN == [k |-> "nan", n |-> 0, d |-> 1]
PosInf == [k |-> "inf", n |-> 1, d |-> 1]
NegInf == [k |-> "inf", n |-> -1, d |-> 1]
None == [k |-> "none", n |-> 0, d |-> 1]
Absent == [k |-> "absent", n |-> 0, d |-> 1]

IsNum(x) == x.k = "num"
IsNaN(x) == x.k = "nan"
IsInf(x) == x.k = "inf"
\* A finite real number: a rational, or the irrational a fifth root left.
IsFinite(x) == x.k \in {"num", "surd"}

\* -1, 0 or 1; NaN has no sign and is never asked for one.
Sign(x) == IF x.n > 0 THEN 1 ELSE IF x.n < 0 THEN -1 ELSE 0

Inf(s) == IF s > 0 THEN PosInf ELSE NegInf

\* x > y, x < y, x != y, x == y as IEEE 754 compares them: every ordered
\* comparison with NaN is false, and NaN != y is true.
Gt(x, y) ==
    CASE IsNaN(x) \/ IsNaN(y) -> FALSE
      [] IsInf(x) /\ IsInf(y) -> x.n > y.n
      [] IsInf(x) -> x.n > 0
      [] IsInf(y) -> y.n < 0
      [] OTHER -> x.n * y.d > y.n * x.d
Ne(x, y) == IsNaN(x) \/ IsNaN(y) \/ x # y

Neg(x) == IF IsNaN(x) THEN NaN ELSE [x EXCEPT !.n = -x.n]

\* x * y for rationals, g1 = gcd(|x.n|, y.d) and g2 = gcd(|y.n|, x.d) cancelled
\* before the products are formed.
MulReduced(x, y, g1, g2) ==
    [k |-> "num", n |-> (x.n \div g1) * (y.n \div g2),
     d |-> (x.d \div g2) * (y.d \div g1)]

Mul(x, y) ==
    CASE IsNaN(x) \/ IsNaN(y) -> NaN
      [] IsInf(x) \/ IsInf(y) ->
            IF Sign(x) = 0 \/ Sign(y) = 0 THEN NaN ELSE Inf(Sign(x) * Sign(y))
      [] OTHER ->
            IF x.d = 1 /\ y.d = 1 THEN Whole(x.n * y.n)
            ELSE MulReduced(x, y, GCD(Abs(x.n), y.d), GCD(Abs(y.n), x.d))

\* Every division of the source is guarded against a zero divisor; a zero
\* divisor gives what numpy gives (an infinity, or NaN for 0/0).
Div(x, y) ==
    CASE IsNaN(x) \/ IsNaN(y) -> NaN
      [] IsInf(x) /\ IsInf(y) -> NaN
      [] IsInf(x) -> Inf(Sign(x) * (IF Sign(y) < 0 THEN -1 ELSE 1))
      [] IsInf(y) -> Zero
      [] y.n = 0 -> IF x.n = 0 THEN NaN ELSE Inf(Sign(x))
      [] OTHER -> Mul(x, Num(y.d, y.n))

\* x + y for rationals over the least common denominator, g = gcd(x.d, y.d).
AddReduced(x, y, g) ==
    Num(x.n * (y.d \div g) + y.n * (x.d \div g), (x.d \div g) * y.d)

Add(x, y) ==
    CASE IsNaN(x) \/ IsNaN(y) -> NaN
      [] IsInf(x) /\ IsInf(y) -> IF x.n = y.n THEN x ELSE NaN
      [] IsInf(x) -> x
      [] IsInf(y) -> y
      [] OTHER ->
            IF x.d = 1 /\ y.d = 1 THEN Whole(x.n + y.n)
            ELSE AddReduced(x, y, GCD(x.d, y.d))

Sub(x, y) == Add(x, Neg(y))

\* x ** e for an integer e >= 1.
RECURSIVE Pow(_, _)
Pow(x, e) == IF e = 1 THEN x ELSE Mul(x, Pow(x, e - 1))

One == Whole(1)
Hundred == Whole(100)

---------------------------------------------------------------------------
(* A pandas DataFrame of a statement: rows labelled by concept, one column *)
(* per reporting period, most recent first.  ncols is len(df.columns),     *)
(* DOMAIN rows is df.index, rows[k] is df.loc[k] (of length ncols).        *)

\* df.empty
Empty(df) == df.ncols = 0 \/ DOMAIN df.rows = {}

\* df.iloc[:, i:i+1]
ColSlice(df, i) ==
    [ncols |-> IF i < df.ncols THEN 1 ELSE 0,
     rows |-> [k \in DOMAIN df.rows |->
                  IF i < df.ncols THEN <<df.rows[k][i + 1]>> ELSE <<>>]]

RECURSIVE GetFrom(_, _, _, _)
GetFrom(fin, key_list, idx, j) ==
    IF j > Len(key_list) THEN Zero
    ELSE LET k == key_list[j] IN
         IF k \in DOMAIN fin.rows /\ Len(fin.rows[k]) # 0 /\ idx < Len(fin.rows[k])
         THEN fin.rows[k][idx + 1]
         ELSE GetFrom(fin, key_list, idx, j + 1)

\* The same loop without its return: the last matching alias wins.
RECURSIVE GetFromLast(_, _, _, _, _)
GetFromLast(fin, key_list, idx, j, found) ==
    IF j > Len(key_list) THEN found
    ELSE LET k == key_list[j] IN
         IF k \in DOMAIN fin.rows /\ Len(fin.rows[k]) # 0 /\ idx < Len(fin.rows[k])
         THEN GetFromLast(fin, key_list, idx, j + 1, fin.rows[k][idx + 1])
         ELSE GetFromLast(fin, key_list, idx, j + 1, found)

get_from_financials_last(fin, key_list, idx) == GetFromLast(fin, key_list, idx, 1, Zero)

get_from_financials(fin, key_list, idx) == GetFrom(fin, key_list, idx, 1)

candidates ==
    <<"Total Stockholder Equity", "Total Equity", "Stockholders Equity",
      "Total shareholders' equity", "Total Shareholders Equity",
      "Ordinary Shares", "Total liabilities and equity">>

RECURSIVE GetEquity(_, _)
GetEquity(bs, j) ==
    IF j > Len(candidates) THEN Zero
    ELSE LET key == candidates[j] IN
         IF key \in DOMAIN bs.rows /\ Len(bs.rows[key]) # 0
         THEN bs.rows[key][1]
         ELSE GetEquity(bs, j + 1)

get_equity_from_balance_sheet(bs) == GetEquity(bs, 1)

---------------------------------------------------------------------------
(* safe_get on the profile record (a dict; the pandas branch of safe_get   *)
(* is never taken: every call site passes stock.info).                     *)

safe_get(obj, key, default) ==
    LET val == IF obj[key].k = "absent" THEN default ELSE obj[key]
    IN  IF val.k \notin {"nan", "none"} THEN val ELSE default

---------------------------------------------------------------------------
(* fetch_fundamental_data *)

Million == 1000000
TrailingPeriods == 5

Min(a, b) == IF a < b THEN a ELSE b

RECURSIVE SumSeq(_)
SumSeq(s) == IF s = <<>> THEN Zero ELSE Add(s[1], SumSeq(Tail(s)))

\* np.mean of a non-empty list
Mean(s) == Div(SumSeq(s), Whole(Len(s)))

\* lines 73-78: the list roes after the loop has run for i, i+1, ..., n-1
RECURSIVE RoesFrom(_, _, _, _)
RoesFrom(fin, bs, i, n) ==
    IF i >= n THEN <<>>
    ELSE LET ni == get_from_financials(fin, <<"Net Income">>, i)
             eq == get_equity_from_balance_sheet(ColSlice(bs, i))
         IN  IF Ne(eq, Zero)
             THEN <<Mul(Div(ni, eq), Hundred)>> \o RoesFrom(fin, bs, i + 1, n)
             ELSE RoesFrom(fin, bs, i + 1, n)

\* lines 73-79
trailing_roe(fin, bs) ==
    LET roes == RoesFrom(fin, bs, 0, Min(TrailingPeriods, fin.ncols))
    IN  IF roes # <<>> THEN Mean(roes) ELSE Zero

\* line 60, with "and" for "or"
tables_both_empty(fin, bs) == Empty(fin) /\ Empty(bs)

\* line 60
tables_empty(fin, bs) == Empty(fin) \/ Empty(bs)

\* lines 87-93 without the test of the sign of trailingEps
payout_ratio_any_eps(inf, last_price) ==
    LET direct == Mul(safe_get(inf, "payoutRatio", Zero), Hundred)
        dividend_yield == safe_get(inf, "dividendYield", Zero)
        eps == safe_get(inf, "trailingEps", Zero)
    IN  IF direct = Zero
        THEN IF Gt(dividend_yield, Zero) /\ Ne(eps, Zero)
             THEN Mul(Div(Mul(dividend_yield, last_price), eps), Hundred)
             ELSE direct
        ELSE direct

\* lines 87-93
payout_ratio_of(inf, last_price) ==
    LET direct == Mul(safe_get(inf, "payoutRatio", Zero), Hundred)
        dividend_yield == safe_get(inf, "dividendYield", Zero)
        eps == safe_get(inf, "trailingEps", Zero)
    IN  IF direct = Zero
        THEN IF Gt(dividend_yield, Zero) /\ Gt(eps, Zero)
             THEN Mul(Div(Mul(dividend_yield, last_price), eps), Hundred)
             ELSE direct
        ELSE direct

FieldNames ==
    {"Shares (in Million)", "Last Price", "Pendapatan", "Profit", "Equity",
     "ROE (Annual)", "ROE (in 5 Years)", "EPS Growth (in 5 Years)",
     "SPS Growth (Annual)", "SPS Growth (in 5 Years)",
     "Dividend Payout Ratio (DPR%)", "Average PBV", "Average PER", "Average PSR"}

\* lines 135-140: every field 0.0
ZeroFields == [f \in FieldNames |-> Zero]

\* fetch_fundamental_data returns None (none = TRUE) or the mapping map.
Unavailable == [none |-> TRUE, map |-> ZeroFields]

fetch_fundamental_data(inf, fin, bs, hist, raises) ==
    IF raises THEN Unavailable                       \* lines 115-117
    ELSE IF tables_empty(fin, bs) THEN Unavailable   \* lines 60-61
    ELSE
    LET shares_outstanding == safe_get(inf, "sharesOutstanding", Zero)
        shares == IF Gt(shares_outstanding, Zero)
                  THEN Div(shares_outstanding, Whole(Million)) ELSE Zero
        last_price == safe_get(inf, "currentPrice",
                               IF hist # <<>> THEN hist[Len(hist)] ELSE Zero)
        revenue == get_from_financials(fin, <<"Total Revenue", "Revenue">>, 0)
        net_income == get_from_financials(
                          fin, <<"Net Income", "Net Income Common Stockholders">>, 0)
        equity == get_equity_from_balance_sheet(bs)
        roe_annual == IF Ne(equity, Zero)
                      THEN Mul(Div(net_income, equity), Hundred) ELSE Zero
        roe_5y == trailing_roe(fin, bs)
        eps_growth_a == Mul(safe_get(inf, "earningsGrowth", Zero), Hundred)
        eps_growth_5y == IF eps_growth_a = Zero
                         THEN Mul(safe_get(inf, "earningsQuarterlyGrowth", Zero), Hundred)
                         ELSE eps_growth_a
        sps_growth_5y == Mul(safe_get(inf, "revenueGrowth", Zero), Hundred)
        payout_ratio == payout_ratio_of(inf, last_price)
        avg_pbv == safe_get(inf, "priceToBook", Zero)
        avg_per == safe_get(inf, "trailingPE", Zero)
        avg_psr == safe_get(inf, "priceToSalesTrailing12Months", Zero)
    IN  [none |-> FALSE,
         map |-> [f \in FieldNames |->
            CASE f = "Shares (in Million)" -> shares
              [] f = "Last Price" -> last_price
              [] f = "Pendapatan" -> revenue
              [] f = "Profit" -> net_income
              [] f = "Equity" -> equity
              [] f = "ROE (Annual)" -> roe_annual
              [] f = "ROE (in 5 Years)" -> roe_5y
              [] f = "EPS Growth (in 5 Years)" -> eps_growth_5y
              [] f = "SPS Growth (Annual)" -> sps_growth_5y
              [] f = "SPS Growth (in 5 Years)" -> sps_growth_5y
              [] f = "Dividend Payout Ratio (DPR%)" -> payout_ratio
              [] f = "Average PBV" -> avg_pbv
              [] f = "Average PER" -> avg_per
              [] f = "Average PSR" -> avg_psr]]

---------------------------------------------------------------------------
(* The form: lines 122-162 *)

\* The operator has typed nothing into any number input.
Untouched == [f \in FieldNames |-> Absent]

\* input_with_default: the number input holds default_val until the operator
\* types a value (typed = what the operator typed, Absent if nothing).
input_with_default(manual, typed, default_val) ==
    IF manual
    THEN IF typed = Absent THEN default_val ELSE typed
    ELSE default_val

---------------------------------------------------------------------------
(* The projection: lines 171-204 *)

Horizon == 5
start_year == 2025

\* lines 172-174
per_share(aggregate, shares_outstanding) ==
    IF Gt(shares_outstanding, Zero) THEN Div(aggregate, shares_outstanding) ELSE Zero

\* lines 186-188 compounding i times instead of i + 1
compound_i(metric, rate, i) ==
    IF i = 0 THEN metric ELSE Mul(metric, Pow(Add(One, rate), i))

\* lines 186-188: metric * ((1 + rate) ** (i + 1))
compound(metric, rate, i) == Mul(metric, Pow(Add(One, rate), i + 1))

\* line 177 reading the annual ROE
roe_annual_rate(f) == Div(f["ROE (Annual)"], Hundred)

\* line 177
roe_rate(f) == Div(f["ROE (in 5 Years)"], Hundred)

ColumnNames ==
    {"Tahun", "BV Future Value", "Future Price (PBV)", "EPS Future Value",
     "Future Price (PER)", "SPS Future Value", "Future Price (PSR)"}

\* lines 191-204: the row of year start_year + i
ProjectionRow(i, bv, eps, sps, f) ==
    [c \in ColumnNames |->
        CASE c = "Tahun" -> Whole(start_year + i)
          [] c = "BV Future Value" -> bv
          [] c = "Future Price (PBV)" -> Mul(bv, f["Average PBV"])
          [] c = "EPS Future Value" -> eps
          [] c = "Future Price (PER)" -> Mul(eps, f["Average PER"])
          [] c = "SPS Future Value" -> sps
          [] c = "Future Price (PSR)" -> Mul(sps, f["Average PSR"])]

\* lines 177-204
ProjectionRows(f, book_value_per_share, eps_current, sps_current, roe, eps_growth, sps_growth) ==
    [r \in 1..Horizon |->
        ProjectionRow(r - 1,
                      compound(book_value_per_share, roe, r - 1),
                      compound(eps_current, eps_growth, r - 1),
                      compound(sps_current, sps_growth, r - 1), f)]

\* line 171
shares_outstanding_of(f) == Mul(f["Shares (in Million)"], Whole(Million))

\* lines 171-204: future_df as the sequence of its rows
projection(f) ==
    ProjectionRows(f,
                   per_share(f["Equity"], shares_outstanding_of(f)),
                   per_share(f["Profit"], shares_outstanding_of(f)),
                   per_share(f["Pendapatan"], shares_outstanding_of(f)),
                   roe_rate(f),
                   Div(f["EPS Growth (in 5 Years)"], Hundred),
                   Div(f["SPS Growth (in 5 Years)"], Hundred))

---------------------------------------------------------------------------
(* The summary: lines 215-233 *)

\* np.nanmean: the mean of the entries that are not NaN, NaN if there is none
nanmean(s) ==
    LET kept == SelectSeq(s, LAMBDA x : ~IsNaN(x))
    IN  IF kept = <<>> THEN NaN ELSE Mean(kept)

\* Python's max(a, b): b only if b > a
PyMax(a, b) == IF Gt(b, a) THEN b ELSE a

\* The r >= 0 with r^5 = m, or -1 if m is no fifth power (m < 2^31, so r <= 73).
IRoot5(m) ==
    IF \E r \in 0..73 : r * r * r * r * r = m
    THEN CHOOSE r \in 0..73 : r * r * r * r * r = m
    ELSE -1

\* x ** (1/5) for a numpy float: NaN for a negative x, the exact root where
\* it is rational, and otherwise the irrational root, kept as the "surd" of
\* its radicand x.
Root5(x) ==
    CASE IsNaN(x) -> NaN
      [] IsInf(x) -> PosInf
      [] x.n < 0 -> NaN
      [] IRoot5(x.n) >= 0 /\ IRoot5(x.d) >= 0 -> Num(IRoot5(x.n), IRoot5(x.d))
      [] OTHER -> [k |-> "surd", n |-> x.n, d |-> x.d]

\* line 222 with >= for >
gain_loss_ge(future_price_final, last_price) ==
    IF ~Gt(Zero, last_price) /\ ~IsNaN(last_price)
    THEN Mul(Sub(Div(future_price_final, last_price), One), Hundred) ELSE Zero

\* line 222
gain_loss_of(future_price_final, last_price) ==
    IF Gt(last_price, Zero)
    THEN Mul(Sub(Div(future_price_final, last_price), One), Hundred) ELSE Zero

\* line 223 without max(0, ...)
margin_no_floor(future_price_final, last_price) ==
    IF Gt(future_price_final, Zero)
    THEN Mul(Div(Sub(future_price_final, last_price), future_price_final), Hundred)
    ELSE Zero

\* line 223
margin_of_safety_of(future_price_final, last_price) ==
    IF Gt(future_price_final, Zero)
    THEN PyMax(Zero, Mul(Div(Sub(future_price_final, last_price),
                             future_price_final), Hundred))
    ELSE Zero

\* lines 224 and 232: cagr * 100.  Where the fifth root is irrational the
\* result is that surd: it stands for (root - 1) * 100, a finite number that
\* is not 0.
cagr_pct(future_price_final, last_price) ==
    IF Gt(last_price, Zero)
    THEN LET root == Root5(Div(future_price_final, last_price))
         IN  IF root.k = "surd" THEN root ELSE Mul(Sub(root, One), Hundred)
    ELSE Mul(Zero, Hundred)

MetricNames ==
    {"Last Price (Saat Ini)", "Future Price (2029)", "G&L Potential (%)",
     "Annual Return (%)", "Margin of Safety (%)", "CAGR (%)"}

\* lines 226-233
SummaryOf(last_price, future_price_final, gain_loss) ==
    [m \in MetricNames |->
        CASE m = "Last Price (Saat Ini)" -> last_price
          [] m = "Future Price (2029)" -> future_price_final
          [] m = "G&L Potential (%)" -> gain_loss
          [] m = "Annual Return (%)" -> Div(gain_loss, Whole(5))
          [] m = "Margin of Safety (%)" ->
                 margin_of_safety_of(future_price_final, last_price)
          [] m = "CAGR (%)" -> cagr_pct(future_price_final, last_price)]

\* lines 215-222
SummaryFor(last_price, future_price_final) ==
    SummaryOf(last_price, future_price_final,
              gain_loss_of(future_price_final, last_price))

\* lines 215-233
summary(df, last_price) ==
    SummaryFor(last_price,
               nanmean(<<df[Len(df)]["Future Price (PBV)"],
                         df[Len(df)]["Future Price (PER)"],
                         df[Len(df)]["Future Price (PSR)"]>>))

---------------------------------------------------------------------------
(* Inputs *)

MaxResolverCols == 2
MaxAliases == 2
MaxCols == 6
MaxOverrides == 1

SeqsOfLen(S, n) == [1..n -> S]

\* Every DataFrame with at most maxc columns, rows labelled by a subset of
\* labels and cells in cells.
Tables(labels, cells, maxc) ==
    UNION {{[ncols |-> c, rows |-> r] :
               r \in UNION {[ix -> SeqsOfLen(cells, c)] : ix \in SUBSET labels}} :
           c \in 0..maxc}

ResolverLabels == {"Total Equity", "Ordinary Shares"}
AliasNames == ResolverLabels \cup {"Stockholders Equity"}
ResolverTables == Tables(ResolverLabels, {Whole(5), NaN}, MaxResolverCols)
KeyLists == UNION {SeqsOfLen(AliasNames, n) : n \in 0..MaxAliases}

\* A statement row of n columns that repeats a pattern of three cells.
Row(pattern, n) == [c \in 1..n |-> pattern[((c - 1) % 3) + 1]]

\* An income statement: "Total Revenue" and, each present or not, the two
\* net-income labels.
FinancialsOf(n, ni, nics) ==
    [ncols |-> n,
     rows |-> [k \in {"Total Revenue"}
                      \cup (IF ni = <<>> THEN {} ELSE {"Net Income"})
                      \cup (IF nics = <<>> THEN {} ELSE {"Net Income Common Stockholders"})
               |-> CASE k = "Total Revenue" -> Row(<<Whole(200 * Million)>> \o
                                                  <<Whole(200 * Million)>> \o
                                                  <<Whole(200 * Million)>>, n)
                     [] k = "Net Income" -> Row(ni, n)
                     [] k = "Net Income Common Stockholders" -> Row(nics, n)]]

\* A balance sheet: "Total Assets" and, present or not, "Total Equity".
BalanceSheetOf(n, eq) ==
    [ncols |-> n,
     rows |-> [k \in {"Total Assets"} \cup (IF eq = <<>> THEN {} ELSE {"Total Equity"})
               |-> IF k = "Total Equity" THEN Row(eq, n)
                   ELSE Row(<<Whole(900), Whole(900), Whole(900)>>, n)]]

FetchFinancials ==
    {FinancialsOf(n, ni, nics) :
        n \in 0..MaxCols,
        ni \in {<<>>} \cup SeqsOfLen({Whole(5), Whole(10)}, 3),
        nics \in {<<>>, <<Whole(7), Whole(7), Whole(7)>>, <<NaN, Whole(7), Whole(7)>>}}

FetchBalanceSheets ==
    {BalanceSheetOf(n, eq) :
        n \in 0..MaxCols, eq \in {<<>>} \cup SeqsOfLen({Zero, Whole(100)}, 3)}

InfoKeys ==
    {"sharesOutstanding", "currentPrice", "earningsGrowth", "earningsQuarterlyGrowth",
     "revenueGrowth", "payoutRatio", "dividendYield", "trailingEps", "priceToBook",
     "trailingPE", "priceToSalesTrailing12Months"}

NominalInfo ==
    [key \in InfoKeys |->
        CASE key = "sharesOutstanding" -> Whole(Million)
          [] key = "currentPrice" -> Hundred
          [] key = "payoutRatio" -> Num(1, 2)
          [] key = "trailingEps" -> Whole(5)
          [] key = "priceToBook" -> Whole(2)
          [] key = "trailingPE" -> Whole(10)
          [] key = "priceToSalesTrailing12Months" -> One
          [] OTHER -> Absent]

NominalHistory == <<Whole(90), Whole(95)>>
NominalFinancials ==
    FinancialsOf(1, <<Whole(50 * Million), Whole(50 * Million), Whole(50 * Million)>>, <<>>)
LossFinancials ==
    FinancialsOf(1, <<Whole(-50 * Million), Whole(-50 * Million), Whole(-50 * Million)>>, <<>>)
GapFinancials ==
    [ncols |-> 1, rows |-> [k \in {"Total Revenue", "Net Income"} |-> <<NaN>>]]
NominalBalanceSheet ==
    BalanceSheetOf(1, <<Whole(100 * Million), Whole(100 * Million), Whole(100 * Million)>>)
GapBalanceSheet == BalanceSheetOf(1, <<NaN, NaN, NaN>>)
NoBalanceSheet == BalanceSheetOf(0, <<>>)

\* Profile records that differ in the fields the payout ratio and the
\* current price are resolved from.
FetchInfos ==
    {[NominalInfo EXCEPT !["payoutRatio"] = pr, !["dividendYield"] = dy,
                         !["trailingEps"] = eps, !["currentPrice"] = cp] :
        pr \in {Absent, None, NaN, Zero, Num(1, 2), PosInf},
        dy \in {Absent, NaN, Zero, Num(3, 100), Num(-3, 100)},
        eps \in {Absent, Zero, Whole(5), Whole(-5)},
        cp \in {Absent, Zero, Hundred}}

FetchHistories == {<<>>, NominalHistory, <<Whole(95), NaN>>}

---------------------------------------------------------------------------
(* State *)

ResolverIdle ==
    /\ arg_fin = [ncols |-> 0, rows |-> <<>>]
    /\ arg_key_list = <<>>
    /\ arg_idx = 0
    /\ ret = Zero
    /\ rpc = "idle"

ProviderIdle ==
    /\ info = NominalInfo
    /\ financials = NominalFinancials
    /\ balance_sheet = NominalBalanceSheet
    /\ history = NominalHistory
    /\ provider_raises = FALSE

ZeroSummary == [m \in MetricNames |-> Zero]

\* Before the script has run.
RunIdle ==
    /\ pc = "start"
    /\ checkbox = FALSE
    /\ data = Unavailable
    /\ manual_mode = FALSE
    /\ operator = Untouched
    /\ defaults = ZeroFields
    /\ fields = ZeroFields
    /\ future_df = <<>>
    /\ summary_data = ZeroSummary

---------------------------------------------------------------------------
(* One call of the field resolver *)

InitResolver ==
    /\ arg_fin \in ResolverTables
    /\ arg_key_list \in KeyLists
    /\ arg_idx \in 0..MaxResolverCols
    /\ ret = Zero
    /\ rpc = "call"
    /\ ProviderIdle
    /\ RunIdle

CallGetFromFinancials ==
    /\ rpc = "call"
    /\ ret' = get_from_financials(arg_fin, arg_key_list, arg_idx)
    /\ rpc' = "get_from_financials"
    /\ UNCHANGED <<arg_fin, arg_key_list, arg_idx, provider_vars, run_vars>>

CallGetEquity ==
    /\ rpc = "call"
    /\ ret' = get_equity_from_balance_sheet(arg_fin)
    /\ rpc' = "get_equity_from_balance_sheet"
    /\ UNCHANGED <<arg_fin, arg_key_list, arg_idx, provider_vars, run_vars>>

NextResolver == CallGetFromFinancials \/ CallGetEquity

SpecResolver == InitResolver /\ [][NextResolver]_vars

---------------------------------------------------------------------------
(* The script *)

\* line 119: data = fetch_fundamental_data(ticker)
Fetch ==
    /\ pc = "start"
    /\ data' = fetch_fundamental_data(info, financials, balance_sheet, history,
                                      provider_raises)
    /\ pc' = "fetched"
    /\ UNCHANGED <<resolver_vars, provider_vars, checkbox, manual_mode, operator,
                   defaults, fields, future_df, summary_data>>

\* lines 121-236 for the fetched data d, the checkbox box and the typed
\* values typed: the form, the projection and the summary.
Render(d, box, typed) ==
    /\ manual_mode' = (box \/ d.none)                               \* lines 122, 134
    /\ defaults' = IF d.none THEN ZeroFields ELSE d.map             \* lines 132-142
    /\ fields' = [f \in FieldNames |->                              \* lines 146-162
                     input_with_default(manual_mode', typed[f], defaults'[f])]
    /\ future_df' = projection(fields')                             \* lines 171-204
    /\ summary_data' = summary(future_df', fields'["Last Price"])   \* lines 215-233
    /\ pc' = "done"

\* The rest of the first run of the script.
FirstRun ==
    /\ pc = "fetched"
    /\ Render(data, checkbox, operator)
    /\ UNCHANGED <<resolver_vars, provider_vars, checkbox, data, operator>>

\* The operator ticks or unticks the checkbox: the script runs again, the
\* fetch is served from st.cache_data, and number inputs that are no longer
\* shown lose what was typed.
ToggleManual ==
    /\ pc = "done"
    /\ checkbox' = ~checkbox
    /\ operator' = Untouched
    /\ Render(data, ~checkbox, Untouched)
    /\ UNCHANGED <<resolver_vars, provider_vars, data>>

Touched == {f \in FieldNames : operator[f] # Absent}
Aggregates == {"Pendapatan", "Profit", "Equity"}
Unused == {"ROE (Annual)", "SPS Growth (Annual)", "Dividend Payout Ratio (DPR%)"}

\* What the operator may type into the number input of field f (a number
\* input takes any finite number, a negative one too).
ManualVals(f) ==
    CASE f \in {"Shares (in Million)", "Last Price"} -> {Whole(-100), Zero, Hundred}
      [] f \in Aggregates -> {Whole(-100 * Million), Zero}
      [] f \in Unused -> {Zero, Hundred}
      [] OTHER -> {Whole(-100), Hundred}

\* The operator types v into the number input of field f: the script runs
\* again with the fetch served from the cache.
Edit(f, v) ==
    /\ pc = "done"
    /\ manual_mode
    /\ f \in Touched \/ Cardinality(Touched) < MaxOverrides
    /\ operator' = [operator EXCEPT ![f] = v]
    /\ Render(data, checkbox, operator')
    /\ UNCHANGED <<resolver_vars, provider_vars, checkbox, data>>

EditAny == \E f \in FieldNames : \E v \in ManualVals(f) : Edit(f, v)

\* The cache entry (ttl = 3600) has expired and the provider now reports
\* another payout ratio: the next run of the script fetches again.
Refetch ==
    /\ pc = "done"
    /\ \E pr \in {Num(1, 2), Num(1, 4)} :
          /\ pr # info["payoutRatio"]
          /\ info' = [info EXCEPT !["payoutRatio"] = pr]
    /\ data' = fetch_fundamental_data(info', financials, balance_sheet, history,
                                      provider_raises)
    /\ Render(data', checkbox, operator)
    /\ UNCHANGED <<resolver_vars, financials, balance_sheet, history,
                   provider_raises, checkbox, operator>>

Scenario(inf, fin, bs, hist, raises) ==
    [info |-> inf, financials |-> fin, balance_sheet |-> bs, history |-> hist,
     provider_raises |-> raises]

\* The provider data of the tickers the script is run for: a company with a
\* profit, the same at a price above what the projection gives, without a
\* quoted price (with no price history, and with one that ends in a gap),
\* without a share count, with growth figures, with a loss, with statements
\* full of gaps, with an infinite P/E, without a balance sheet, and a ticker
\* for which yfinance raises.
RunScenarios ==
    {Scenario(NominalInfo, NominalFinancials, NominalBalanceSheet, NominalHistory, FALSE),
     Scenario([NominalInfo EXCEPT !["currentPrice"] = Whole(1000)],
              NominalFinancials, NominalBalanceSheet, NominalHistory, FALSE),
     Scenario([NominalInfo EXCEPT !["currentPrice"] = Absent],
              NominalFinancials, NominalBalanceSheet, <<>>, FALSE),
     Scenario([NominalInfo EXCEPT !["currentPrice"] = Absent],
              NominalFinancials, NominalBalanceSheet, <<Whole(95), NaN>>, FALSE),
     Scenario([NominalInfo EXCEPT !["sharesOutstanding"] = None],
              NominalFinancials, NominalBalanceSheet, NominalHistory, FALSE),
     Scenario([NominalInfo EXCEPT !["earningsGrowth"] = One,
                                  !["revenueGrowth"] = Num(-1, 2)],
              NominalFinancials, NominalBalanceSheet, NominalHistory, FALSE),
     Scenario(NominalInfo, LossFinancials, NominalBalanceSheet, NominalHistory, FALSE),
     Scenario(NominalInfo, GapFinancials, GapBalanceSheet, NominalHistory, FALSE),
     Scenario([NominalInfo EXCEPT !["trailingPE"] = PosInf],
              NominalFinancials, NominalBalanceSheet, NominalHistory, FALSE),
     Scenario(NominalInfo, NominalFinancials, NoBalanceSheet, NominalHistory, FALSE),
     Scenario(NominalInfo, NominalFinancials, NominalBalanceSheet, NominalHistory, TRUE)}

InitRun ==
    /\ ResolverIdle
    /\ RunIdle
    /\ \E sc \in RunScenarios :
          /\ info = sc.info
          /\ financials = sc.financials
          /\ balance_sheet = sc.balance_sheet
          /\ history = sc.history
          /\ provider_raises = sc.provider_raises

Next == Fetch \/ FirstRun \/ ToggleManual \/ EditAny \/ Refetch

Spec == InitRun /\ [][Next]_vars

\* One ticker's provider data for a call of fetch_fundamental_data.
InitFetch ==
    /\ ResolverIdle
    /\ RunIdle
    /\ provider_raises \in BOOLEAN
    /\ \/ /\ financials \in FetchFinancials
          /\ balance_sheet \in FetchBalanceSheets
          /\ info = NominalInfo
          /\ history = NominalHistory
       \/ /\ financials = NominalFinancials
          /\ balance_sheet = NominalBalanceSheet
          /\ info \in FetchInfos
          /\ history \in FetchHistories

NextFetch == Fetch

SpecFetch == InitFetch /\ [][NextFetch]_vars

---------------------------------------------------------------------------
(* Claims about the field resolver (SpecResolver) *)

MinOf(S) == CHOOSE x \in S : \A y \in S : x <= y

\* The entry at offset idx of the first alias of key_list that is a row of
\* fin with an entry at that offset; 0 if there is no such alias.
FirstAliasEntry(fin, key_list, idx) ==
    LET hits == {j \in 1..Len(key_list) :
                    /\ key_list[j] \in DOMAIN fin.rows
                    /\ idx < Len(fin.rows[key_list[j]])}
    IN  IF hits = {} THEN Zero ELSE fin.rows[key_list[MinOf(hits)]][idx + 1]

\* C1: get_from_financials returns the entry at the offset of the first
\* alias, in declaration order, that is present and has an entry at that
\* offset, and 0 when there is none; get_equity_from_balance_sheet does the
\* same for the equity aliases at offset 0.
C1_FirstAliasWins ==
    /\ rpc = "get_from_financials" =>
          ret = FirstAliasEntry(arg_fin, arg_key_list, arg_idx)
    /\ rpc = "get_equity_from_balance_sheet" =>
          ret = FirstAliasEntry(arg_fin, candidates, 0)

\* Two aliases are both present with different entries at the offset, and
\* the first one's entry was returned.
C1_Witness ==
    /\ rpc = "get_from_financials"
    /\ Len(arg_key_list) = 2
    /\ arg_key_list[1] \in DOMAIN arg_fin.rows
    /\ arg_key_list[2] \in DOMAIN arg_fin.rows
    /\ arg_idx < arg_fin.ncols
    /\ arg_fin.rows[arg_key_list[1]][arg_idx + 1] # arg_fin.rows[arg_key_list[2]][arg_idx + 1]
    /\ ret = arg_fin.rows[arg_key_list[1]][arg_idx + 1]

---------------------------------------------------------------------------
(* Claims about fetch_fundamental_data (SpecFetch) *)

Fetched == pc = "fetched" /\ ~data.none

\* C2: every field of a returned mapping is a finite number.
C2_AllFieldsFinite ==
    Fetched => \A f \in FieldNames : IsFinite(data.map[f])

\* The trailing-average ROE as C3 states it: net income is resolved for the
\* net-income concept (the aliases of line 68) at offset i, equity at
\* balance-sheet column i, and the mean is taken over the periods whose
\* equity is not 0.
NetIncomeConcept == <<"Net Income", "Net Income Common Stockholders">>
PeriodRoe(fin, bs, i) ==
    Mul(Div(FirstAliasEntry(fin, NetIncomeConcept, i),
            FirstAliasEntry(ColSlice(bs, i), candidates, 0)), Hundred)
Qualifying(fin, bs) ==
    {i \in 0..(Min(5, fin.ncols) - 1) :
        Ne(FirstAliasEntry(ColSlice(bs, i), candidates, 0), Zero)}
RECURSIVE SumOver(_, _, _)
SumOver(fin, bs, S) ==
    IF S = {} THEN Zero
    ELSE Add(PeriodRoe(fin, bs, MinOf(S)), SumOver(fin, bs, S \ {MinOf(S)}))
ClaimedTrailingRoe(fin, bs) ==
    IF Qualifying(fin, bs) = {} THEN Zero
    ELSE Div(SumOver(fin, bs, Qualifying(fin, bs)),
             Whole(Cardinality(Qualifying(fin, bs))))

\* C3: the trailing-average ROE is the mean of net income / equity x 100
\* over the qualifying ones of the first min(5, periods) periods, net income
\* being resolved for the net-income concept, and 0 if none qualifies.
C3_TrailingRoeOfConcept ==
    Fetched => data.map["ROE (in 5 Years)"] = ClaimedTrailingRoe(financials, balance_sheet)

\* C4 as stated: unavailable exactly when both statement tables are empty.
C4_UnavailableIffBothEmpty ==
    pc = "fetched" => (data.none <=> (Empty(financials) /\ Empty(balance_sheet)))

\* C4 as amended: unavailable exactly when the income statement or the
\* balance sheet is empty, or an exception was raised inside the try.
C4_UnavailableIffEitherEmptyOrRaised ==
    pc = "fetched" =>
        (data.none <=> (provider_raises \/ Empty(financials) \/ Empty(balance_sheet)))

\* Unavailable with an income statement that is not empty.
C4_Witness ==
    /\ pc = "fetched"
    /\ data.none
    /\ ~provider_raises
    /\ ~Empty(financials)
    /\ Empty(balance_sheet)

\* A profile field as a number: 0 if it is absent, null or not-a-number.
Coerced(v) == IF v.k \in {"absent", "none", "nan"} THEN Zero ELSE v

\* C9: the payout ratio is the direct field x 100 if that field is not 0;
\* else (dividend yield x current price / trailing EPS) x 100 if yield and
\* EPS are both > 0; else 0.
C9_PayoutRatio ==
    Fetched =>
        data.map["Dividend Payout Ratio (DPR%)"] =
            CASE Coerced(info["payoutRatio"]) # Zero ->
                    Mul(Coerced(info["payoutRatio"]), Hundred)
              [] /\ Coerced(info["payoutRatio"]) = Zero
                 /\ Gt(Coerced(info["dividendYield"]), Zero)
                 /\ Gt(Coerced(info["trailingEps"]), Zero) ->
                    Mul(Div(Mul(Coerced(info["dividendYield"]), data.map["Last Price"]),
                            Coerced(info["trailingEps"])), Hundred)
              [] OTHER -> Zero

\* Direct field 0, yield 0.03, price 100, EPS 5: the payout ratio is 60.
C9_Witness ==
    /\ Fetched
    /\ info["payoutRatio"] = Zero
    /\ info["dividendYield"] = Num(3, 100)
    /\ info["trailingEps"] = Whole(5)
    /\ data.map["Last Price"] = Hundred
    /\ data.map["Dividend Payout Ratio (DPR%)"] = Whole(60)

---------------------------------------------------------------------------
(* Claims about the projection and the summary (Spec) *)

Done == pc = "done"
LastPrice == fields["Last Price"]
FuturePrice == summary_data["Future Price (2029)"]
GainLoss == summary_data["G&L Potential (%)"]
Margin == summary_data["Margin of Safety (%)"]
Cagr == summary_data["CAGR (%)"]
Positive(x) == IsNum(x) /\ x.n > 0

\* C5 as stated: at a current price of 0, gain/loss, CAGR and margin of
\* safety are all 0.
C5_AllZeroAtPriceZero ==
    (Done /\ LastPrice = Zero) => (GainLoss = Zero /\ Cagr = Zero /\ Margin = Zero)

\* C5 as amended: at a current price of 0, gain/loss and CAGR are 0, and the
\* margin of safety is 100 if the blended future price is a positive finite
\* number and 0 otherwise.
C5_ZeroPrice ==
    (Done /\ LastPrice = Zero) =>
        /\ GainLoss = Zero
        /\ Cagr = Zero
        /\ Margin = IF Positive(FuturePrice) THEN Hundred ELSE Zero

\* A current price of 0 under a positive blended future price.
C5_Witness ==
    Done /\ LastPrice = Zero /\ Positive(FuturePrice) /\ Margin = Hundred

\* C6: no SummaryMetrics field is ever not-a-number or infinite.
C6_SummaryFinite ==
    Done => \A m \in MetricNames : IsFinite(summary_data[m])

\* C7: the margin of safety is never negative (nor not-a-number); it is 0
\* when the blended future price is not > 0 and when the current price is
\* above it, and otherwise, for finite prices, it is the m with
\* m x future price = (future price - current price) x 100.
C7_MarginNeverNegative ==
    Done =>
        /\ ~IsNaN(Margin) /\ ~Gt(Zero, Margin)
        /\ ~Gt(FuturePrice, Zero) => Margin = Zero
        /\ Gt(LastPrice, FuturePrice) => Margin = Zero
        /\ (Positive(FuturePrice) /\ IsNum(LastPrice) /\ ~Gt(LastPrice, FuturePrice)) =>
              Mul(Margin, FuturePrice) = Mul(Sub(FuturePrice, LastPrice), Hundred)

\* A current price above a positive blended future price.
C7_Witness ==
    Done /\ Positive(FuturePrice) /\ Gt(LastPrice, FuturePrice) /\ Margin = Zero

AbsoluteShares == Mul(fields["Shares (in Million)"], Whole(1000000))

\* The projection of C8 from the per-share metrics bvps, eps and sps: 5 rows
\* for the years 2025..2029 in order, each metric one more compounding of
\* the row before, each price the metric times its multiple.
ProjectionFrom(bvps, eps, sps) ==
    /\ Len(future_df) = 5
    /\ \A r \in 1..5 : future_df[r]["Tahun"] = Whole(2025 + r - 1)
    /\ \A r \in 1..5 :
          /\ future_df[r]["BV Future Value"] =
                Mul(IF r = 1 THEN bvps ELSE future_df[r - 1]["BV Future Value"],
                    Add(One, Div(fields["ROE (in 5 Years)"], Hundred)))
          /\ future_df[r]["EPS Future Value"] =
                Mul(IF r = 1 THEN eps ELSE future_df[r - 1]["EPS Future Value"],
                    Add(One, Div(fields["EPS Growth (in 5 Years)"], Hundred)))
          /\ future_df[r]["SPS Future Value"] =
                Mul(IF r = 1 THEN sps ELSE future_df[r - 1]["SPS Future Value"],
                    Add(One, Div(fields["SPS Growth (in 5 Years)"], Hundred)))
          /\ future_df[r]["Future Price (PBV)"] =
                Mul(future_df[r]["BV Future Value"], fields["Average PBV"])
          /\ future_df[r]["Future Price (PER)"] =
                Mul(future_df[r]["EPS Future Value"], fields["Average PER"])
          /\ future_df[r]["Future Price (PSR)"] =
                Mul(future_df[r]["SPS Future Value"], fields["Average PSR"])

\* aggregate / absolute share count, 0 when that share count is 0
PerShareUnlessZero(aggregate) ==
    IF AbsoluteShares = Zero THEN Zero ELSE Div(aggregate, AbsoluteShares)

\* aggregate / absolute share count, 0 when that share count is not > 0
PerShareIfPositive(aggregate) ==
    IF Gt(AbsoluteShares, Zero) THEN Div(aggregate, AbsoluteShares) ELSE Zero

\* C8 as stated: the 5 rows compound the per-share metrics, each aggregate /
\* (share count x 1,000,000) and 0 when the share count is 0.
C8_ProjectionUnlessZeroShares ==
    Done => ProjectionFrom(PerShareUnlessZero(fields["Equity"]),
                           PerShareUnlessZero(fields["Profit"]),
                           PerShareUnlessZero(fields["Pendapatan"]))

\* A run of the script with the same fields as the run before it.
SameInputs == Done /\ Done' /\ fields' = fields

\* C8 as amended: the 5 rows compound the per-share metrics, each aggregate /
\* (share count x 1,000,000) and 0 when the share count is 0 or negative;
\* a run on the same fields gives the same rows.
C8_Projection ==
    /\ [](Done => ProjectionFrom(PerShareIfPositive(fields["Equity"]),
                                 PerShareIfPositive(fields["Profit"]),
                                 PerShareIfPositive(fields["Pendapatan"])))
    /\ [][SameInputs => future_df' = future_df]_vars

\* A positive share count and a book value that grows from row to row.
C8_Witness ==
    /\ Done
    /\ Gt(AbsoluteShares, Zero)
    /\ Gt(future_df[1]["BV Future Value"], Zero)
    /\ Gt(future_df[5]["BV Future Value"], future_df[4]["BV Future Value"])
    /\ Gt(future_df[5]["Future Price (PBV)"], future_df[5]["BV Future Value"])

Used == FieldNames \ Unused

\* A run of the script whose fields differ from those of the run before it
\* at most in annual ROE, annual SPS growth and dividend payout ratio.
OnlyUnusedDiffer == Done /\ Done' /\ \A f \in Used : fields'[f] = fields[f]

\* C10: two runs that differ only in annual ROE, annual SPS growth or
\* dividend payout ratio give the same projection rows and the same summary.
C10_NonInterference ==
    [][OnlyUnusedDiffer => (future_df' = future_df /\ summary_data' = summary_data)]_vars

\* The operator has overridden the annual ROE, and nothing else, with a
\* value other than the resolved one, under a projection that is not flat.
C10_Witness ==
    /\ Done
    /\ manual_mode
    /\ Touched = {"ROE (Annual)"}
    /\ fields["ROE (Annual)"] # defaults["ROE (Annual)"]
    /\ future_df[5]["BV Future Value"] # future_df[1]["BV Future Value"]

====
